---- MODULE Spec2Model ----
(***************************************************************************)
(* A model of the NASA RAG batch evaluation script                         *)
(*   starter_files/batch_evaluation.py  (main, load_test_questions,        *)
(*                                       aggregate_metrics)                *)
(*   starter_files/rag_client.py        (retrieve_documents,               *)
(*                                       format_context)                   *)
(*   starter_files/llm_client.py        (generate_response)                *)
(*                                                                         *)
(* Python values are modelled as follows.  A str is a TLA+ string.  A dict *)
(* is a function whose DOMAIN is the set of its keys.  A list is a         *)
(* sequence.  None is the string PyNone where strings are expected.  A     *)
(* function that may raise returns [raised |-> ..., exc |-> ..., value     *)
(* |-> ...].  Metric scores are kept in tenths (0.8 is 8) and a mean is an *)
(* exact fraction <<numerator, denominator>> in lowest terms, which is     *)
(* what statistics.mean computes before its final rounding to a float.     *)
(***************************************************************************)
EXTENDS Integers, Sequences, FiniteSets, TLC

\* ------------------------------------------------------------- bounds
MaxQuestions == 6
MaxResults == 4
MaxHistory == 3
MaxDocs == 2

\* ------------------------------------------------- program constants
MIN_QUESTIONS == 5
N_RESULTS == 3
max_length == 1200

PyNone == "<None>"
NoExc == "<no exception>"
SYSTEM_PROMPT == "You are a NASA mission expert ... Keep answers clear, concise, and educational."
CONTEXT_PREFIX == "Context to use for answering the question:\n"
CONTEXT_TITLE == "### Retrieved NASA Context\n"

\* ------------------------------------------------------ python helpers
\* dict.get(key, default)
Get(d, k, default) == IF k \in DOMAIN d THEN d[k] ELSE default

\* truthiness of an Optional[str]
Truthy(s) == s # PyNone /\ s # ""

\* a or b, on Optional[str]
PyOr(a, b) == IF Truthy(a) THEN a ELSE b

\* dict.setdefault(key, value)
SetDefault(d, k, v) ==
    [x \in DOMAIN d \cup {k} |-> IF x \in DOMAIN d THEN d[x] ELSE v]

Min(a, b) == IF a <= b THEN a ELSE b

\* s.replace("_", " ").title() on the field values that occur
TitleCase(s) ==
    CASE s = "unknown mission" -> "Unknown Mission"
      [] s = "general" -> "General"
      [] s = "apollo_11" -> "Apollo 11"
      [] s = "mission_overview" -> "Mission Overview"
      [] OTHER -> s

RECURSIVE JoinLines(_)
\* "\n".join(parts)
JoinLines(parts) ==
    IF parts = <<>> THEN ""
    ELSE IF Len(parts) = 1 THEN parts[1]
    ELSE parts[1] \o "\n" \o JoinLines(Tail(parts))

\* ---------------------------------------------------- rag_client.py
\* The names bound when the header f-string of format_context is evaluated:
\* the function's parameters and locals, and the module's globals.  The name
\* "source" is among neither.
FormatContextScope ==
    {"documents", "metadatas", "context_parts", "idx", "doc", "meta",
     "doc_id", "mission", "category",
     "chromadb", "Settings", "Dict", "List", "Optional", "Path",
     "discover_chroma_backends", "initialize_rag_system",
     "retrieve_documents", "format_context"}

\* The truncated body of a document: doc[:max_length].rstrip() + "..." when it
\* is longer than max_length.  A document is [text, len]; the emitted body is
\* the text with the slice applied to it written out.
DocBody(doc) ==
    IF doc.len > max_length
    THEN doc.text \o "[:" \o ToString(max_length) \o "].rstrip()" \o "..."
    ELSE doc.text

\* One iteration of the loop of format_context: the label, the descriptors,
\* the header, the body and the spacer.  Evaluating the header reads the name
\* "source".
FormatEntry(idx, doc, meta) ==
    LET doc_id == PyOr(Get(meta, "doc_id", PyNone),
                       PyOr(Get(meta, "source", PyNone),
                            "DOC_" \o ToString(idx)))
        mission == TitleCase(Get(meta, "mission", "unknown mission"))
        category == TitleCase(Get(meta, "category", "general"))
        locals == [n \in FormatContextScope |->
                     CASE n = "doc_id" -> doc_id
                       [] n = "mission" -> mission
                       [] n = "category" -> category
                       [] OTHER -> n]
    IN  IF "source" \notin DOMAIN locals
        THEN [raised |-> TRUE, exc |-> "NameError", value |-> <<>>]
        ELSE [raised |-> FALSE, exc |-> NoExc,
              value |-> << "[Source " \o ToString(idx) \o "] "
                             \o "Mission: " \o mission \o " | "
                             \o "Category: " \o category \o " | "
                             \o "Source: " \o locals["source"],
                           DocBody(doc),
                           "" >>]

RECURSIVE FormatLoop(_, _, _, _)
\* for idx, (doc, meta) in enumerate(zip(documents, metadatas), start=1)
FormatLoop(documents, metadatas, idx, context_parts) ==
    IF idx > Min(Len(documents), Len(metadatas))
    THEN [raised |-> FALSE, exc |-> NoExc, value |-> context_parts]
    ELSE LET entry == FormatEntry(idx, documents[idx], metadatas[idx])
         IN  IF entry.raised
             THEN [raised |-> TRUE, exc |-> entry.exc, value |-> ""]
             ELSE FormatLoop(documents, metadatas, idx + 1,
                             context_parts \o entry.value)

\* format_context(documents, metadatas)
format_context(documents, metadatas) ==
    IF documents = <<>>
    THEN [raised |-> FALSE, exc |-> NoExc, value |-> ""]
    ELSE LET parts == FormatLoop(documents, metadatas, 1, <<CONTEXT_TITLE>>)
         IN  IF parts.raised
             THEN [raised |-> TRUE, exc |-> parts.exc, value |-> ""]
             ELSE [raised |-> FALSE, exc |-> NoExc,
                   value |-> JoinLines(parts.value)]

\* retrieve_documents(collection, query, n_results): the where filter stays
\* None without a mission filter, the result of collection.query is returned
\* as it is, and an exception raised by collection.query is not caught.
retrieve_documents(queryOutcome) ==
    IF queryOutcome.raised
    THEN [raised |-> TRUE, exc |-> queryOutcome.exc, value |-> queryOutcome.value]
    ELSE [raised |-> FALSE, exc |-> NoExc, value |-> queryOutcome.value]

\* ---------------------------------------------------- llm_client.py
\* "role" in msg and "content" in msg
HasRoleAndContent(msg) == "role" \in DOMAIN msg /\ "content" \in DOMAIN msg

\* the message list with the history appended after the question
BuildMessages_HistoryLast(user_message, context, conversation_history) ==
    << [role |-> "system", content |-> SYSTEM_PROMPT] >>
    \o (IF context # ""
        THEN << [role |-> "system", content |-> CONTEXT_PREFIX \o context] >>
        ELSE << >>)
    \o << [role |-> "user", content |-> user_message] >>
    \o SelectSeq(conversation_history, HasRoleAndContent)

\* The message list generate_response builds before it calls the provider.
BuildMessages(user_message, context, conversation_history) ==
    << [role |-> "system", content |-> SYSTEM_PROMPT] >>
    \o (IF context # ""
        THEN << [role |-> "system", content |-> CONTEXT_PREFIX \o context] >>
        ELSE << >>)
    \o SelectSeq(conversation_history, HasRoleAndContent)
    \o << [role |-> "user", content |-> user_message] >>

\* generate_response: the provider's exception propagates, otherwise the
\* content of the first choice is returned.
generate_response(llmOutcome) ==
    IF llmOutcome.raised
    THEN [raised |-> TRUE, exc |-> llmOutcome.exc, value |-> PyNone]
    ELSE [raised |-> FALSE, exc |-> NoExc, value |-> llmOutcome.value]

\* ---------------------------------------------- batch_evaluation.py
\* A metric value: its Python type, its number (in tenths) when it is one, and
\* its text when it is a str.
Float(v) == [t |-> "float", v |-> v, s |-> ""]
Str(msg) == [t |-> "str", v |-> 0, s |-> msg]

\* isinstance(value, (int, float)); bool is a subclass of int
IsNumeric(value) == value.t \in {"int", "float", "bool"}

EmptyDict == << >>

\* the inner loop counting a non-numeric value as a zero score
AppendNumeric_ImputesZero(aggregates, metrics) ==
    [m \in DOMAIN aggregates \cup DOMAIN metrics |->
        (IF m \in DOMAIN aggregates THEN aggregates[m] ELSE << >>)
        \o (IF m \in DOMAIN metrics THEN << metrics[m].v >> ELSE << >>)]

\* The inner loop of aggregate_metrics over one result's metrics:
\* aggregates.setdefault(metric, []).append(value) for each numeric value.
AppendNumeric(aggregates, metrics) ==
    LET numeric == {m \in DOMAIN metrics : IsNumeric(metrics[m])}
    IN  [m \in DOMAIN aggregates \cup numeric |->
            (IF m \in DOMAIN aggregates THEN aggregates[m] ELSE << >>)
            \o (IF m \in numeric THEN << metrics[m].v >> ELSE << >>)]

RECURSIVE CollectMetrics(_, _, _)
\* for result in results: for metric, value in result.get("metrics", {}).items()
CollectMetrics(results, i, aggregates) ==
    IF i > Len(results) THEN aggregates
    ELSE CollectMetrics(results, i + 1,
             AppendNumeric(aggregates, Get(results[i], "metrics", EmptyDict)))

RECURSIVE SumSeq(_)
SumSeq(values) == IF values = << >> THEN 0 ELSE Head(values) + SumSeq(Tail(values))

RECURSIVE Gcd(_, _)
Gcd(a, b) == IF b = 0 THEN a ELSE Gcd(b, a % b)

\* statistics.mean(values) of a non-empty list: the exact mean
Mean(values) ==
    LET total == SumSeq(values)
        n == Len(values)
        g == Gcd(n, total)
    IN  << total \div g, n \div g >>

\* aggregate_metrics(results)
aggregate_metrics(results) ==
    LET aggregates == CollectMetrics(results, 1, EmptyDict)
    IN  [metric \in {m \in DOMAIN aggregates : aggregates[m] # << >>} |->
            Mean(aggregates[metric])]

\* load_test_questions without its minimum check
load_test_questions_NoMinimum(exists, content) ==
    IF ~exists
    THEN [raised |-> TRUE, exc |-> "FileNotFoundError", value |-> << >>]
    ELSE [raised |-> FALSE, exc |-> NoExc, value |-> content]

\* load_test_questions(path)
load_test_questions(exists, content) ==
    IF ~exists
    THEN [raised |-> TRUE, exc |-> "FileNotFoundError", value |-> << >>]
    ELSE IF Len(content) < MIN_QUESTIONS
    THEN [raised |-> TRUE, exc |-> "ValueError", value |-> << >>]
    ELSE [raised |-> FALSE, exc |-> NoExc, value |-> content]

\* ------------------------------------------------------------ state
VARIABLES
    pc,                    \* the position of the script
    OPENAI_API_KEY,        \* whether the environment variable is set
    fileExists,            \* whether test_questions.json exists
    fileContent,           \* the list test_questions.json holds
    questions,             \* main: questions
    idx,                   \* main: idx
    question,              \* main: question
    retrieval,             \* main: retrieval
    documents,             \* main: documents
    metadatas,             \* main: metadatas
    context,               \* main: context
    conversation_history,  \* the history handed to generate_response
    messages,              \* generate_response: messages, as sent
    answer,                \* main: answer
    e,                     \* main: the exception caught around the evaluation
    per_question_results,  \* main: per_question_results
    aggregate,             \* main: aggregate
    written,               \* the reports written to batch_evaluation_results.json
    err,                   \* the exception that ended the script
    calls                  \* the external calls issued so far, per interface

vars == << pc, OPENAI_API_KEY, fileExists, fileContent, questions, idx, question,
           retrieval, documents, metadatas, context, conversation_history,
           messages, answer, e, per_question_results, aggregate, written, err,
           calls >>

\* ------------------------------------------------ the external world
\* What collection.query may hand back: None, or a dict.
Unset == [tag |-> "unset", keys |-> {}, documents |-> << >>, metadatas |-> << >>]
NoneResult == [tag |-> "None", keys |-> {}, documents |-> << >>, metadatas |-> << >>]
DictResult(keys, docs, metas) ==
    [tag |-> "dict", keys |-> keys, documents |-> docs, metadatas |-> metas]
QueryKeys == {"ids", "documents", "metadatas", "distances"}

ShortDoc == [text |-> "Apollo 11 landed on the Moon in 1969.", len |-> 37]
LongDoc == [text |-> "Transcript of the Apollo 13 air-to-ground loop", len |-> 2000]

BatchMetas == {[source |-> "apollo11.txt", mission |-> "apollo_11"],
               [mission |-> "apollo_11", category |-> "mission_overview"]}

QueryResults ==
    {NoneResult,
     DictResult({}, << >>, << >>),
     DictResult({"ids"}, << >>, << >>),
     DictResult(QueryKeys, << >>, << >>),
     DictResult(QueryKeys, << << >> >>, << << >> >>)}
    \cup {DictResult(QueryKeys, << [i \in 1..k |-> ShortDoc] >>,
                                << [i \in 1..k |-> m] >>) :
            k \in 1..N_RESULTS, m \in BatchMetas}

QueryOutcomes ==
    {[raised |-> FALSE, exc |-> NoExc, value |-> r] : r \in QueryResults}
    \cup {[raised |-> TRUE, exc |-> "ChromaQueryError", value |-> Unset]}

LLMOutcomes ==
    {[raised |-> FALSE, exc |-> NoExc,
      value |-> "I don't know based on the provided documents."],
     [raised |-> TRUE, exc |-> "OpenAIError", value |-> PyNone]}

EvalOutcomes ==
    {[raised |-> FALSE, exc |-> NoExc, value |-> [faithfulness |-> Float(8)]],
     [raised |-> FALSE, exc |-> NoExc,
      value |-> [faithfulness |-> Float(6), relevance |-> Float(10)]],
     [raised |-> TRUE, exc |-> "ragas failed", value |-> EmptyDict]}

\* not retrieval
NotRetrieval(r) == r.tag = "None" \/ r.keys = {}

\* not retrieval.get("documents")
NotDocuments(r) == "documents" \notin r.keys \/ r.documents = << >>

QuestionFiles ==
    {[i \in 1..k |-> "Q" \o ToString(i)] : k \in 0..MaxQuestions}

NoCalls == [discover |-> 0, initialize |-> 0, query |-> 0, llm |-> 0, evaluate |-> 0]

Called(what) == [calls EXCEPT ![what] = @ + 1]

\* The locals of main before main has assigned them.
InitLocals ==
    /\ questions = << >>
    /\ idx = 0
    /\ question = PyNone
    /\ retrieval = Unset
    /\ documents = << >>
    /\ metadatas = << >>
    /\ context = ""
    /\ messages = << >>
    /\ answer = PyNone
    /\ e = NoExc
    /\ per_question_results = << >>
    /\ aggregate = EmptyDict
    /\ written = << >>
    /\ err = NoExc
    /\ calls = NoCalls

Init ==
    /\ pc = "import"
    /\ OPENAI_API_KEY \in BOOLEAN
    /\ fileExists \in BOOLEAN
    /\ fileContent \in QuestionFiles
    /\ conversation_history = << >>
    /\ InitLocals

\* An exception nobody catches ends the script.
Raise(exc) == pc' = "aborted" /\ err' = exc

\* The for loop's next step once idx has moved to i.
NextIteration(i) == IF i > Len(questions) THEN "aggregate" ELSE "loop"

\* ---------------------------------------------------------- actions
\* The module body: the script refuses to start without the API key.
ImportModule ==
    /\ pc = "import"
    /\ IF ~OPENAI_API_KEY
       THEN Raise("RuntimeError")
       ELSE pc' = "main" /\ err' = err
    /\ UNCHANGED << OPENAI_API_KEY, fileExists, fileContent, questions, idx,
                    question, retrieval, documents, metadatas, context,
                    conversation_history, messages, answer, e,
                    per_question_results, aggregate, written, calls >>

\* main: questions = load_test_questions(TEST_QUESTIONS_FILE)
LoadTestQuestions ==
    /\ pc = "main"
    /\ LET r == load_test_questions(fileExists, fileContent)
       IN  IF r.raised
           THEN Raise(r.exc) /\ questions' = questions
           ELSE pc' = "discover" /\ err' = err /\ questions' = r.value
    /\ UNCHANGED << OPENAI_API_KEY, fileExists, fileContent, idx, question,
                    retrieval, documents, metadatas, context,
                    conversation_history, messages, answer, e,
                    per_question_results, aggregate, written, calls >>

\* main: backends = rag_client.discover_chroma_backends(); no backend is fatal
DiscoverBackends ==
    /\ pc = "discover"
    /\ calls' = Called("discover")
    /\ \E found \in BOOLEAN :
          IF ~found
          THEN Raise("RuntimeError")
          ELSE pc' = "initialize" /\ err' = err
    /\ UNCHANGED << OPENAI_API_KEY, fileExists, fileContent, questions, idx,
                    question, retrieval, documents, metadatas, context,
                    conversation_history, messages, answer, e,
                    per_question_results, aggregate, written >>

\* main: collection = rag_client.initialize_rag_system(...), then
\* per_question_results = [] and the loop starts
InitializeRagSystem ==
    /\ pc = "initialize"
    /\ calls' = Called("initialize")
    /\ \E ok \in BOOLEAN :
          IF ~ok
          THEN Raise("ChromaCollectionError") /\ idx' = idx
          ELSE pc' = NextIteration(1) /\ err' = err /\ idx' = 1
    /\ per_question_results' = << >>
    /\ UNCHANGED << OPENAI_API_KEY, fileExists, fileContent, questions,
                    question, retrieval, documents, metadatas, context,
                    conversation_history, messages, answer, e, aggregate,
                    written >>

\* One iteration up to the call of format_context: the question is read, the
\* vector store is queried through retrieve_documents, an absent or empty
\* result skips the question (continue), otherwise the first result list is
\* unpacked and every metadata gets a "source".
RetrieveDocuments ==
    /\ pc = "loop"
    /\ question' = questions[idx]
    /\ calls' = Called("query")
    /\ \E out \in QueryOutcomes :
          LET r == retrieve_documents(out)
          IN  IF r.raised
              THEN /\ Raise(r.exc)
                   /\ UNCHANGED << retrieval, documents, metadatas, idx >>
              ELSE /\ retrieval' = r.value
                   /\ err' = err
                   /\ IF NotRetrieval(r.value) \/ NotDocuments(r.value)
                      THEN /\ idx' = idx + 1
                           /\ pc' = NextIteration(idx + 1)
                           /\ UNCHANGED << documents, metadatas >>
                      ELSE /\ documents' = r.value.documents[1]
                           /\ metadatas' =
                                [i \in DOMAIN r.value.metadatas[1] |->
                                    SetDefault(r.value.metadatas[1][i],
                                               "source", "unknown source")]
                           /\ idx' = idx
                           /\ pc' = "format"
    /\ UNCHANGED << OPENAI_API_KEY, fileExists, fileContent, questions, context,
                    conversation_history, messages, answer, e,
                    per_question_results, aggregate, written >>

\* main: context = rag_client.format_context(documents, metadatas)
FormatContext ==
    /\ pc = "format"
    /\ LET r == format_context(documents, metadatas)
       IN  IF r.raised
           THEN Raise(r.exc) /\ context' = context
           ELSE pc' = "generate" /\ err' = err /\ context' = r.value
    /\ UNCHANGED << OPENAI_API_KEY, fileExists, fileContent, questions, idx,
                    question, retrieval, documents, metadatas,
                    conversation_history, messages, answer, e,
                    per_question_results, aggregate, written, calls >>

\* main: answer = llm_client.generate_response(...): the messages are built,
\* the provider is called, and its error is caught nowhere.
GenerateResponse ==
    /\ pc = "generate"
    /\ messages' = BuildMessages(question, context, conversation_history)
    /\ calls' = Called("llm")
    /\ \E out \in LLMOutcomes :
          LET r == generate_response(out)
          IN  IF r.raised
              THEN Raise(r.exc) /\ answer' = answer
              ELSE pc' = "evaluate" /\ err' = err /\ answer' = r.value
    /\ UNCHANGED << OPENAI_API_KEY, fileExists, fileContent, questions, idx,
                    question, retrieval, documents, metadatas, context,
                    conversation_history, e, per_question_results, aggregate,
                    written >>

\* the evaluation without its try/except: the error ends the script
EvaluateResponse_Propagates ==
    /\ pc = "evaluate"
    /\ calls' = Called("evaluate")
    /\ \E out \in EvalOutcomes :
          IF out.raised
          THEN /\ Raise(out.exc)
               /\ UNCHANGED << e, per_question_results, idx >>
          ELSE /\ e' = NoExc
               /\ per_question_results' =
                     Append(per_question_results,
                            [question |-> question, answer |-> answer,
                             metrics |-> out.value])
               /\ idx' = idx + 1
               /\ pc' = NextIteration(idx + 1)
               /\ err' = err
    /\ UNCHANGED << OPENAI_API_KEY, fileExists, fileContent, questions,
                    question, retrieval, documents, metadatas, context,
                    conversation_history, messages, answer, aggregate, written >>

\* the evaluation step saving the report after every question
EvaluateResponse_SavesEachTime ==
    /\ pc = "evaluate"
    /\ calls' = Called("evaluate")
    /\ \E out \in EvalOutcomes :
          LET metrics == IF out.raised
                         THEN [error |-> Str(out.exc)]
                         ELSE out.value
              results == Append(per_question_results,
                                [question |-> question, answer |-> answer,
                                 metrics |-> metrics])
          IN  /\ e' = (IF out.raised THEN out.exc ELSE NoExc)
              /\ per_question_results' = results
              /\ written' = << [per_question |-> results,
                                aggregate |-> aggregate_metrics(results)] >>
    /\ idx' = idx + 1
    /\ pc' = NextIteration(idx + 1)
    /\ UNCHANGED << OPENAI_API_KEY, fileExists, fileContent, questions,
                    question, retrieval, documents, metadatas, context,
                    conversation_history, messages, answer, aggregate, err >>

\* main: the evaluation inside try/except, the append to
\* per_question_results, and the step to the next question.
EvaluateResponse ==
    /\ pc = "evaluate"
    /\ calls' = Called("evaluate")
    /\ \E out \in EvalOutcomes :
          LET metrics == IF out.raised
                         THEN [error |-> Str(out.exc)]
                         ELSE out.value
          IN  /\ e' = (IF out.raised THEN out.exc ELSE NoExc)
              /\ per_question_results' =
                    Append(per_question_results,
                           [question |-> question, answer |-> answer,
                            metrics |-> metrics])
    /\ idx' = idx + 1
    /\ pc' = NextIteration(idx + 1)
    /\ UNCHANGED << OPENAI_API_KEY, fileExists, fileContent, questions,
                    question, retrieval, documents, metadatas, context,
                    conversation_history, messages, answer, aggregate, written,
                    err >>

\* main: aggregate = aggregate_metrics(per_question_results)
Aggregate ==
    /\ pc = "aggregate"
    /\ aggregate' = aggregate_metrics(per_question_results)
    /\ pc' = "save"
    /\ UNCHANGED << OPENAI_API_KEY, fileExists, fileContent, questions, idx,
                    question, retrieval, documents, metadatas, context,
                    conversation_history, messages, answer, e,
                    per_question_results, written, err, calls >>

\* main: json.dump({"per_question": ..., "aggregate": ...}, f)
SaveResults ==
    /\ pc = "save"
    /\ written' = Append(written, [per_question |-> per_question_results,
                                   aggregate |-> aggregate])
    /\ pc' = "done"
    /\ UNCHANGED << OPENAI_API_KEY, fileExists, fileContent, questions, idx,
                    question, retrieval, documents, metadatas, context,
                    conversation_history, messages, answer, e,
                    per_question_results, aggregate, err, calls >>

Next ==
    \/ ImportModule
    \/ LoadTestQuestions
    \/ DiscoverBackends
    \/ InitializeRagSystem
    \/ RetrieveDocuments
    \/ FormatContext
    \/ GenerateResponse
    \/ EvaluateResponse
    \/ Aggregate
    \/ SaveResults

Spec == Init /\ [][Next]_vars

\* ------------------------------- specifications of the single functions
SeqsUpTo(S, n) == UNION {[1..k -> S] : k \in 0..n}

\* The locals a function-level specification does not use.
IdleLocals ==
    /\ OPENAI_API_KEY = TRUE
    /\ fileExists = TRUE
    /\ fileContent = << >>
    /\ questions = << >>
    /\ idx = 1
    /\ retrieval = Unset
    /\ messages = << >>
    /\ answer = PyNone
    /\ e = NoExc
    /\ aggregate = EmptyDict
    /\ written = << >>
    /\ err = NoExc
    /\ calls = NoCalls

\* format_context on every pair of lists up to MaxDocs long.
FormatMetas ==
    {EmptyDict,
     [mission |-> "apollo_11"],
     [source |-> "apollo11.txt"],
     [doc_id |-> "NASA-7", source |-> "apollo11.txt"]}

InitFormat ==
    /\ pc = "format"
    /\ documents \in SeqsUpTo({ShortDoc, LongDoc}, MaxDocs)
    /\ metadatas \in SeqsUpTo(FormatMetas, MaxDocs)
    /\ question = "Q1"
    /\ context = ""
    /\ conversation_history = << >>
    /\ per_question_results = << >>
    /\ IdleLocals

SpecFormat == InitFormat /\ [][FormatContext]_vars

\* generate_response on every history up to MaxHistory long.
HistoryEntries ==
    {[role |-> "user", content |-> "What was Apollo 11?"],
     [role |-> "assistant", content |-> "The first crewed Moon landing."],
     [role |-> "user"],
     [content |-> "a turn without a role"]}

InitGenerate ==
    /\ pc = "generate"
    /\ question \in {"Q1", ""}
    /\ context \in {"", CONTEXT_TITLE \o "\n" \o ShortDoc.text}
    /\ conversation_history \in SeqsUpTo(HistoryEntries, MaxHistory)
    /\ documents = << >>
    /\ metadatas = << >>
    /\ per_question_results = << >>
    /\ IdleLocals

SpecGenerate == InitGenerate /\ [][GenerateResponse]_vars

\* aggregate_metrics on every result list up to MaxResults long.
ErrorMetrics == [error |-> Str("ragas failed")]

ResultEntries ==
    {[question |-> "Q", answer |-> "A", metrics |-> m] :
        m \in {ErrorMetrics,
               EmptyDict,
               [faithfulness |-> Float(6)],
               [faithfulness |-> Float(8)],
               [faithfulness |-> Float(10)],
               [faithfulness |-> Float(8), relevance |-> Float(5)],
               [relevance |-> Str("n/a")]}}
    \cup {[question |-> "Q", answer |-> "A"]}

InitAggregate ==
    /\ pc = "aggregate"
    /\ per_question_results \in SeqsUpTo(ResultEntries, MaxResults)
    /\ question = "Q"
    /\ context = ""
    /\ conversation_history = << >>
    /\ documents = << >>
    /\ metadatas = << >>
    /\ IdleLocals

SpecAggregate == InitAggregate /\ [][Aggregate \/ SaveResults]_vars

\* ------------------------------------------------------------ claims
\* What the claims speak of, stated on the data and not through the
\* operators above.
Last(seq) == seq[Len(seq)]

\* The metrics of a result, none when the result has no "metrics".
MetricsOf(result) ==
    IF "metrics" \in DOMAIN result THEN result.metrics ELSE EmptyDict

\* The results in which metric m has a numeric score.
Scored(results, m) ==
    {i \in 1..Len(results) :
        /\ "metrics" \in DOMAIN results[i]
        /\ m \in DOMAIN results[i].metrics
        /\ results[i].metrics[m].t \in {"int", "float", "bool"}}

\* The results whose metrics are the error sentinel.
ErrorTagged(results) ==
    {i \in 1..Len(results) :
        /\ "metrics" \in DOMAIN results[i]
        /\ "error" \in DOMAIN results[i].metrics}

\* Every metric name some result carries.
MetricNames(results) ==
    UNION {DOMAIN results[i].metrics :
             i \in {j \in 1..Len(results) : "metrics" \in DOMAIN results[j]}}

RECURSIVE Total(_, _, _)
\* The sum of metric m over the results in S.
Total(results, m, S) ==
    IF S = {} THEN 0
    ELSE LET i == CHOOSE j \in S : TRUE
         IN  results[i].metrics[m].v + Total(results, m, S \ {i})

\* mean is the fraction total / count
IsMeanOf(mean, total, count) ==
    /\ mean[2] > 0
    /\ count > 0
    /\ mean[1] * count = total * mean[2]

\* A retrieval that brought no passage: no result, no "documents", an empty
\* container, or a container holding an empty passage list.
ZeroPassages(r) ==
    \/ r.tag = "None"
    \/ "documents" \notin r.keys
    \/ r.documents = << >>
    \/ r.documents[1] = << >>

\* C1: a completed batch run over at least 5 questions reports exactly one
\* per_question entry per input question, the i-th entry being the i-th
\* question, whatever each retrieval returned.
C1_OneEntryPerQuestion ==
    (pc = "done" /\ Len(questions) >= MIN_QUESTIONS) =>
        /\ Len(written) = 1
        /\ Len(written[1].per_question) = Len(questions)
        /\ \A i \in 1..Len(questions) :
              written[1].per_question[i].question = questions[i]

\* C2: with fewer than 5 questions in the file the run fails before any
\* external call (discovery, vector-store query, LLM, evaluation) is issued,
\* and no report is written.
C2_FailsFastBelowMinimum ==
    Len(fileContent) < MIN_QUESTIONS =>
        /\ calls = NoCalls
        /\ written = << >>
        /\ pc \in {"import", "main", "aborted"}
        /\ pc = "aborted" => err \in {"RuntimeError", "FileNotFoundError", "ValueError"}

\* C2 witness: a file of 1 to 4 questions was loaded and the run has been
\* refused with the ValueError of the minimum check.
C2_Witness ==
    /\ Len(fileContent) \in 1..(MIN_QUESTIONS - 1)
    /\ OPENAI_API_KEY /\ fileExists
    /\ pc = "aborted"
    /\ err = "ValueError"

\* C3: an error raised by the vector-store query is caught by retrieve and
\* never ends the batch run.
C3_QueryErrorIsContained ==
    ~(pc = "aborted" /\ err = "ChromaQueryError")

\* C4: a failure of context assembly or of generation for one question is
\* confined to it: a run that has stopped after such a failure has queried
\* every question and has written its report.
C4_GenerationFailureIsConfined ==
    (Len(questions) >= MIN_QUESTIONS
        /\ err \in {"NameError", "OpenAIError"}
        /\ pc \in {"done", "aborted"}) =>
        /\ pc = "done"
        /\ calls.query = Len(questions)
        /\ Len(written) = 1

\* C5: the evaluation step never ends the run: whether the evaluation returns
\* or raises, the entry {question, answer, metrics} is appended and the loop
\* goes on to the next question; when it raised (e is the caught exception)
\* the metrics of the entry are {error: message}; and the error mapping adds
\* nothing to any aggregate metric.
C5_EvaluationErrorIsContained ==
    /\ [][pc = "evaluate" =>
            /\ pc' = (IF idx < Len(questions) THEN "loop" ELSE "aggregate")
            /\ idx' = idx + 1
            /\ err' = NoExc
            /\ Len(per_question_results') = Len(per_question_results) + 1
            /\ SubSeq(per_question_results', 1, Len(per_question_results))
                  = per_question_results
            /\ Last(per_question_results').question = question
            /\ Last(per_question_results').answer = answer
            /\ e' # NoExc =>
                  Last(per_question_results').metrics = [error |-> Str(e')]]_vars
    /\ [](pc \in {"save", "done"} =>
            /\ "error" \notin DOMAIN aggregate
            /\ \A m \in DOMAIN aggregate :
                  LET S == Scored(per_question_results, m)
                             \ ErrorTagged(per_question_results)
                  IN  IsMeanOf(aggregate[m],
                               Total(per_question_results, m, S),
                               Cardinality(S)))

\* C5 witness: a finished run in which an evaluation raised for one question
\* and another question was scored.
C5_Witness ==
    /\ pc = "done"
    /\ ErrorTagged(per_question_results) # {}
    /\ Scored(per_question_results, "faithfulness") # {}
    /\ e # NoExc

\* C6: the aggregate's keys are exactly the metric names with a numeric value
\* in some result, each mapped to the mean of the metric's numeric values over
\* the results that hold it; 0.6, 0.8, 1.0 and one error-tagged result give
\* 0.8, and error-tagged results alone give the empty mapping.
C6_AggregateIsMeanOfNumericValues ==
    pc \in {"save", "done"} =>
        LET results == per_question_results
        IN  /\ DOMAIN aggregate =
                 {m \in MetricNames(results) : Scored(results, m) # {}}
            /\ \A m \in DOMAIN aggregate :
                  IsMeanOf(aggregate[m],
                           Total(results, m, Scored(results, m)),
                           Cardinality(Scored(results, m)))
            /\ (/\ Len(results) = 4
                /\ {MetricsOf(results[i]) : i \in 1..4} =
                      {[faithfulness |-> Float(6)], [faithfulness |-> Float(8)],
                       [faithfulness |-> Float(10)], ErrorMetrics})
               => aggregate = [faithfulness |-> << 8, 1 >>]
            /\ (\A i \in 1..Len(results) : i \in ErrorTagged(results))
               => aggregate = EmptyDict

\* C6 witness: the aggregate of 0.6, 0.8, 1.0 and one error-tagged result has
\* been computed.
C6_Witness ==
    /\ pc = "save"
    /\ Len(per_question_results) = 4
    /\ {MetricsOf(per_question_results[i]) : i \in 1..4} =
          {[faithfulness |-> Float(6)], [faithfulness |-> Float(8)],
           [faithfulness |-> Float(10)], ErrorMetrics}

\* C7: a question whose retrieval brought zero passages is still generated
\* for: once the loop has moved past it, its entry is the last of
\* per_question_results and carries an answer.
C7_EmptyRetrievalStillAnswered ==
    (pc \in {"loop", "aggregate", "save", "done"} /\ idx > 1
        /\ ZeroPassages(retrieval)) =>
        /\ per_question_results # << >>
        /\ Last(per_question_results).question = questions[idx - 1]
        /\ Last(per_question_results).answer # PyNone

\* The label of the i-th passage: its document id, else its source, else DOC_i.
ExpectedLabel(i, meta) ==
    IF "doc_id" \in DOMAIN meta THEN meta.doc_id
    ELSE IF "source" \in DOMAIN meta THEN meta.source
    ELSE "DOC_" \o ToString(i)

RECURSIVE LabelledFrom(_, _, _)
\* The lines of passages i, i+1, ...: per passage a header that carries the
\* passage's label, the body and a spacer line.
LabelledFrom(docs, metas, i) ==
    IF i > Len(docs) THEN << >>
    ELSE << "[Source " \o ToString(i) \o "] "
              \o "Mission: " \o TitleCase(Get(metas[i], "mission", "unknown mission"))
              \o " | Category: " \o TitleCase(Get(metas[i], "category", "general"))
              \o " | Source: " \o ExpectedLabel(i, metas[i]),
            DocBody(docs[i]), "" >>
         \o LabelledFrom(docs, metas, i + 1)

\* C8: for every non-empty sequence of passages format returns a string whose
\* i-th header carries the label: document id, else source, else DOC_i.
C8_EveryPassageLabelled ==
    (pc # "format" /\ documents # << >> /\ Len(metadatas) = Len(documents)) =>
        /\ pc = "generate"
        /\ err = NoExc
        /\ context = JoinLines(<< CONTEXT_TITLE >>
                               \o LabelledFrom(documents, metadatas, 1))

\* The system block, then the context block when there is a context.
Preamble ==
    << [role |-> "system", content |-> SYSTEM_PROMPT] >>
    \o (IF context = "" THEN << >>
        ELSE << [role |-> "system", content |-> CONTEXT_PREFIX \o context] >>)

RECURSIVE TurnsWithRoleAndContent(_)
\* The history entries that carry both a role and a content, in order.
TurnsWithRoleAndContent(history) ==
    IF history = << >> THEN << >>
    ELSE (IF {"role", "content"} \subseteq DOMAIN Head(history)
          THEN << Head(history) >> ELSE << >>)
         \o TurnsWithRoleAndContent(Tail(history))

\* C9 as stated: the messages sent are the system block, the context block
\* iff the context is non-empty, every supplied history entry in order, and
\* the question as the final user message.
C9_EveryHistoryTurnSent ==
    pc \in {"evaluate", "aborted"} =>
        messages = Preamble \o conversation_history
                      \o << [role |-> "user", content |-> question] >>

\* C9 amended: the messages sent are the system block, the context block iff
\* the context is non-empty, the history entries that carry both a role and a
\* content, each once and in order, and the question as the final user
\* message; an entry lacking a role or a content is not sent.
C9_WellFormedHistorySent ==
    pc \in {"evaluate", "aborted"} =>
        LET c == IF context = "" THEN 0 ELSE 1
            turns == TurnsWithRoleAndContent(conversation_history)
        IN  /\ Len(messages) = 1 + c + Len(turns) + 1
            /\ messages[1] = [role |-> "system", content |-> SYSTEM_PROMPT]
            /\ c = 1 => messages[2] =
                  [role |-> "system", content |-> CONTEXT_PREFIX \o context]
            /\ \A i \in 1..Len(turns) : messages[1 + c + i] = turns[i]
            /\ Last(messages) = [role |-> "user", content |-> question]

\* C9 witness: a request was sent with a context and a history of two turns
\* and one entry that lacks a field.
C9_Witness ==
    /\ pc = "evaluate"
    /\ context # ""
    /\ Len(conversation_history) = 3
    /\ Len(TurnsWithRoleAndContent(conversation_history)) = 2
    /\ Len(messages) = 5

\* C10: the report is written at most once, only when every question has been
\* iterated and the aggregate computed; a run an unhandled error has stopped
\* has written nothing.
C10_ReportWrittenOnceAtEnd ==
    /\ Len(written) <= 1
    /\ written # << >> =>
          /\ pc = "done"
          /\ idx = Len(questions) + 1
          /\ written[1].per_question = per_question_results
          /\ written[1].aggregate = aggregate
          /\ \A m \in DOMAIN aggregate :
                IsMeanOf(aggregate[m],
                         Total(per_question_results, m,
                               Scored(per_question_results, m)),
                         Cardinality(Scored(per_question_results, m)))
    /\ pc = "aborted" => written = << >>
    /\ pc \in {"loop", "format", "generate", "evaluate", "aggregate", "save"}
          => written = << >>

\* C10 witness: a run over at least 5 questions has finished, with one report
\* holding the entries of the questions that were not skipped.
C10_Witness ==
    /\ pc = "done"
    /\ Len(questions) >= MIN_QUESTIONS
    /\ Len(written) = 1
    /\ Len(written[1].per_question) >= 2
    /\ DOMAIN written[1].aggregate # {}

====
